---------------------------- MODULE Spec2Model ----------------------------
(***************************************************************************)
(* A model of balloteer/solana-private-votes: the crypto crate (ElGamal    *)
(* over the Ristretto group, Keccak commitments and nullifiers) and the    *)
(* privacy-layer ledger program (initialize_private_election and           *)
(* cast_encrypted_vote).                                                   *)
(*                                                                         *)
(* The Ristretto group is a cyclic group of prime order; it is modelled    *)
(* as the additive group of integers modulo GROUP_ORDER, a point being     *)
(* named by its residue, with a basepoint that is a unit.  Scalars are     *)
(* the integers modulo GROUP_ORDER.  A 32-byte array is modelled by the    *)
(* natural number it spells in little-endian order.                        *)
(***************************************************************************)
EXTENDS Integers, Sequences, FiniteSets, TLC

VARIABLES
    op,                 \* crypto harness: the operation that was applied
    args,               \* crypto harness: the inputs it was applied to
    out,                \* crypto harness: what it returned
    private_elections,  \* ledger: PrivateElection accounts, by PDA
    nullifier_sets,     \* ledger: NullifierSet accounts, by PDA
    encrypted_votes,    \* ledger: EncryptedVote accounts
    clock,              \* ledger: Clock::get().unix_timestamp
    last                \* ledger: the last instruction and its result

harness_vars == <<op, args, out>>
ledger_vars == <<private_elections, nullifier_sets, encrypted_votes, clock, last>>
vars == <<op, args, out, private_elections, nullifier_sets, encrypted_votes, clock, last>>

---------------------------------------------------------------------------
(* Bounds of the model and constants of the program.                       *)

\* The order of the model's group (the Ristretto group's is 2^252 + ...).
\* It exceeds every plaintext the model forms, as the real order exceeds
\* every u64 sum or product the program forms.
GROUP_ORDER == 40009

\* The generator of the group (any unit modulo GROUP_ORDER).
RISTRETTO_BASEPOINT_TABLE == 7

\* decrypt's search bound: for i in 0..10000u64.
BOUND == 10000

\* u8 values, and the length of a [u8; 32].
BYTE_RADIX == 256
ARRAY_LEN == 32

---------------------------------------------------------------------------
(* Result<T> and Option<T>.                                                *)

Ok(v) == [ok |-> TRUE, val |-> v]
Err(e) == [ok |-> FALSE, err |-> e]
Some(v) == [some |-> TRUE, val |-> v]
None == [some |-> FALSE]

Min(S) == CHOOSE x \in S : \A y \in S : x <= y

---------------------------------------------------------------------------
(* Group arithmetic (curve25519_dalek, as the crate uses it).              *)

\* Scalar::from_bytes_mod_order: always succeeds, reducing modulo the order.
from_bytes_mod_order(bytes) == bytes % GROUP_ORDER

\* Scalar::from(u64): a u64 is below the group order.
ScalarFromU64(n) == n % GROUP_ORDER

\* RistrettoPoint + RistrettoPoint, - and Scalar * RistrettoPoint.
PointAdd(p, q) == (p + q) % GROUP_ORDER
PointSub(p, q) == (p - q) % GROUP_ORDER
ScalarMul(s, p) == (s * p) % GROUP_ORDER

\* &scalar * RISTRETTO_BASEPOINT_TABLE
BasepointMul(s) == ScalarMul(s, RISTRETTO_BASEPOINT_TABLE)

\* RistrettoPoint::compress().to_bytes(): the canonical encoding, whose
\* low bit is clear (a Ristretto encoding is a non-negative field element).
compress(p) == 2 * p

\* CompressedRistretto(bytes).decompress(): None unless the bytes are the
\* canonical encoding of a group element.
decompress(bytes) ==
    IF bytes % 2 = 0 /\ bytes \div 2 < GROUP_ORDER
    THEN Some(bytes \div 2)
    ELSE None

---------------------------------------------------------------------------
(* ElGamal (crates/crypto/src/elgamal.rs).                                 *)

\* ElGamalPublicKey::from_bytes
PublicKey_from_bytes(bytes) ==
    IF ~decompress(bytes).some
    THEN Err("InvalidPublicKey")
    ELSE Ok([point |-> bytes])

\* ElGamalPublicKey::as_point
as_point(self) ==
    LET d == decompress(self.point)
    IN  IF d.some THEN Ok(d.val) ELSE Err("InvalidPublicKey")

encrypt_with_randomness_shared_base(self, message, randomness) ==
    LET pp == as_point(self)
        r == from_bytes_mod_order(randomness)
        m_scalar == ScalarFromU64(message)
        c1_point == BasepointMul(r)
        c2_point == PointAdd(BasepointMul(m_scalar), BasepointMul(r))
    IN  IF ~pp.ok THEN pp
        ELSE Ok([c1 |-> compress(c1_point), c2 |-> compress(c2_point)])

encrypt_with_randomness_message_in_c1(self, message, randomness) ==
    LET pp == as_point(self)
        r == from_bytes_mod_order(randomness)
        m_scalar == ScalarFromU64(message)
        m_point == BasepointMul(m_scalar)
        c1_point == PointAdd(BasepointMul(r), m_point)
        c2_point == PointAdd(m_point, ScalarMul(r, pp.val))
    IN  IF ~pp.ok THEN pp
        ELSE Ok([c1 |-> compress(c1_point), c2 |-> compress(c2_point)])

\* ElGamalPublicKey::encrypt_with_randomness
encrypt_with_randomness(self, message, randomness) ==
    LET pp == as_point(self)
        r == from_bytes_mod_order(randomness)
        m_scalar == ScalarFromU64(message)
        c1_point == BasepointMul(r)
        m_point == BasepointMul(m_scalar)
        c2_point == PointAdd(m_point, ScalarMul(r, pp.val))
    IN  IF ~pp.ok THEN pp
        ELSE Ok([c1 |-> compress(c1_point), c2 |-> compress(c2_point)])

\* ElGamalSecretKey::from_bytes
SecretKey_from_bytes(bytes) == [scalar |-> bytes]

\* ElGamalSecretKey::as_scalar
as_scalar(self) == from_bytes_mod_order(self.scalar)

\* The search of decrypt: the first i of 0..n-1 with i * G = m_point.
DiscreteLog(m_point, n) ==
    LET hits == {i \in 0..(n - 1) : BasepointMul(ScalarFromU64(i)) = m_point}
    IN  IF hits = {} THEN Err("DecryptionFailed") ELSE Ok(Min(hits))

decrypt_inclusive_bound(self, ciphertext) ==
    LET c1 == decompress(ciphertext.c1)
        c2 == decompress(ciphertext.c2)
        x == as_scalar(self)
    IN  IF ~c1.some THEN Err("InvalidCiphertext")
        ELSE IF ~c2.some THEN Err("InvalidCiphertext")
        ELSE DiscreteLog(PointSub(c2.val, ScalarMul(x, c1.val)), BOUND + 1)

decrypt_search_first(self, ciphertext) ==
    LET c1 == decompress(ciphertext.c1)
        c2 == decompress(ciphertext.c2)
        x == as_scalar(self)
        found == DiscreteLog(
            PointSub(IF c2.some THEN c2.val ELSE 0,
                     ScalarMul(x, IF c1.some THEN c1.val ELSE 0)), BOUND)
    IN  IF ~found.ok THEN found
        ELSE IF ~c1.some \/ ~c2.some THEN Err("InvalidCiphertext")
        ELSE found

\* ElGamalSecretKey::decrypt
decrypt(self, ciphertext) ==
    LET c1 == decompress(ciphertext.c1)
        c2 == decompress(ciphertext.c2)
        x == as_scalar(self)
    IN  IF ~c1.some THEN Err("InvalidCiphertext")
        ELSE IF ~c2.some THEN Err("InvalidCiphertext")
        ELSE DiscreteLog(PointSub(c2.val, ScalarMul(x, c1.val)), BOUND)

from_secret_doubled_key(secret) ==
    LET secret_scalar == as_scalar(secret)
        public_point == BasepointMul(secret_scalar)
    IN  [public |-> [point |-> compress(PointAdd(public_point, public_point))],
         secret |-> secret]

\* ElGamalKeypair::from_secret
from_secret(secret) ==
    LET secret_scalar == as_scalar(secret)
        public_point == BasepointMul(secret_scalar)
    IN  [public |-> [point |-> compress(public_point)], secret |-> secret]

add_crossed(self, other) ==
    LET c1_self == decompress(self.c1)
        c2_self == decompress(self.c2)
        c1_other == decompress(other.c1)
        c2_other == decompress(other.c2)
    IN  IF ~c1_self.some \/ ~c2_self.some \/ ~c1_other.some \/ ~c2_other.some
        THEN Err("InvalidCiphertext")
        ELSE Ok([c1 |-> compress(PointAdd(c1_self.val, c1_other.val)),
                 c2 |-> compress(PointAdd(c2_self.val, c1_other.val))])

add_doubling(self, other) ==
    LET c1_self == decompress(self.c1)
        c2_self == decompress(self.c2)
        c1_other == decompress(other.c1)
        c2_other == decompress(other.c2)
    IN  IF ~c1_self.some \/ ~c2_self.some \/ ~c1_other.some \/ ~c2_other.some
        THEN Err("InvalidCiphertext")
        ELSE Ok([c1 |-> compress(PointAdd(c1_self.val, c1_other.val)),
                 c2 |-> compress(PointAdd(PointAdd(c2_self.val, c2_self.val),
                                          c2_other.val))])

\* ElGamalCiphertext::add
add(self, other) ==
    LET c1_self == decompress(self.c1)
        c2_self == decompress(self.c2)
        c1_other == decompress(other.c1)
        c2_other == decompress(other.c2)
    IN  IF ~c1_self.some THEN Err("InvalidCiphertext")
        ELSE IF ~c2_self.some THEN Err("InvalidCiphertext")
        ELSE IF ~c1_other.some THEN Err("InvalidCiphertext")
        ELSE IF ~c2_other.some THEN Err("InvalidCiphertext")
        ELSE Ok([c1 |-> compress(PointAdd(c1_self.val, c1_other.val)),
                 c2 |-> compress(PointAdd(c2_self.val, c2_other.val))])

mul_scalar_c2_only(self, scalar) ==
    LET c1 == decompress(self.c1)
        c2 == decompress(self.c2)
        s == ScalarFromU64(scalar)
    IN  IF ~c1.some \/ ~c2.some THEN Err("InvalidCiphertext")
        ELSE Ok([c1 |-> compress(c1.val),
                 c2 |-> compress(ScalarMul(s, c2.val))])

\* ElGamalCiphertext::mul_scalar
mul_scalar(self, scalar) ==
    LET c1 == decompress(self.c1)
        c2 == decompress(self.c2)
        s == ScalarFromU64(scalar)
    IN  IF ~c1.some THEN Err("InvalidCiphertext")
        ELSE IF ~c2.some THEN Err("InvalidCiphertext")
        ELSE Ok([c1 |-> compress(ScalarMul(s, c1.val)),
                 c2 |-> compress(ScalarMul(s, c2.val))])

---------------------------------------------------------------------------
(* The ledger's state before any instruction: no account exists.           *)

ElectionKeys == {"electionA", "electionB"}

NoAccount == [exists |-> FALSE]

LedgerInit ==
    /\ private_elections = [e \in ElectionKeys |-> NoAccount]
    /\ nullifier_sets = [e \in ElectionKeys |-> NoAccount]
    /\ encrypted_votes = {}
    /\ clock = 0
    /\ last = [instruction |-> "none"]

HarnessInit ==
    /\ op = "init"
    /\ args = [none |-> TRUE]
    /\ out = [none |-> TRUE]

---------------------------------------------------------------------------
(* ElGamal applied to bounded inputs: the scenarios of the crate's tests   *)
(* (test_encryption_decryption, test_homomorphic_addition,                 *)
(* test_scalar_multiplication), with the inputs drawn from sets.           *)

\* 32-byte secrets: zero, reduced and unreduced values.
SecretInputs == {0, 1, 12345, GROUP_ORDER - 1, GROUP_ORDER, GROUP_ORDER + 2}

\* u64 messages, on both sides of the search bound.
MessageInputs == {0, 1, 42, BOUND - 1, BOUND, BOUND + 1}

\* 32-byte randomness: zero, reduced and unreduced values.
RandomnessInputs == {0, 1, 77, GROUP_ORDER + 5}

\* u64 scalars of mul_scalar.
ScalarInputs == {0, 1, 2, 3}

\* Inputs of the two-ciphertext and of the scalar scenario.
AdditionSecrets == {0, 12345, GROUP_ORDER + 2}
AdditionMessages == {0, 1, 10, 32, BOUND - 1, BOUND}
AdditionRandomness == {0, 77, GROUP_ORDER + 5}

\* let decrypted = keypair.secret.decrypt(&ciphertext): a failed
\* encryption is handed on as it is.
DecryptResult(secret, ciphertext) ==
    IF ciphertext.ok THEN decrypt(secret, ciphertext.val) ELSE ciphertext

\* test_encryption_decryption
EncryptionDecryption ==
    \E s \in SecretInputs, m \in MessageInputs, r \in RandomnessInputs :
        LET keypair == from_secret(SecretKey_from_bytes(s))
            ciphertext == encrypt_with_randomness(keypair.public, m, r)
        IN  /\ op = "init"
            /\ op' = "encryption_decryption"
            /\ args' = [secret |-> s, message |-> m, randomness |-> r]
            /\ out' = [ciphertext |-> ciphertext,
                       decrypted |-> DecryptResult(keypair.secret, ciphertext)]
            /\ UNCHANGED ledger_vars

\* test_homomorphic_addition
HomomorphicAddition ==
    \E s \in AdditionSecrets, m1 \in AdditionMessages, m2 \in AdditionMessages,
       r1 \in AdditionRandomness, r2 \in AdditionRandomness :
        LET keypair == from_secret(SecretKey_from_bytes(s))
            c1 == encrypt_with_randomness(keypair.public, m1, r1)
            c2 == encrypt_with_randomness(keypair.public, m2, r2)
            c_sum == IF c1.ok /\ c2.ok THEN add(c1.val, c2.val)
                     ELSE IF c1.ok THEN c2 ELSE c1
        IN  /\ op = "init"
            /\ op' = "homomorphic_addition"
            /\ args' = [secret |-> s, m1 |-> m1, m2 |-> m2, r1 |-> r1, r2 |-> r2]
            /\ out' = [ciphertext |-> c_sum,
                       decrypted |-> DecryptResult(keypair.secret, c_sum)]
            /\ UNCHANGED ledger_vars

\* test_scalar_multiplication
ScalarMultiplication ==
    \E s \in AdditionSecrets, m \in MessageInputs, r \in RandomnessInputs,
       k \in ScalarInputs :
        LET keypair == from_secret(SecretKey_from_bytes(s))
            ciphertext == encrypt_with_randomness(keypair.public, m, r)
            c_mul == IF ciphertext.ok THEN mul_scalar(ciphertext.val, k)
                     ELSE ciphertext
        IN  /\ op = "init"
            /\ op' = "scalar_multiplication"
            /\ args' = [secret |-> s, message |-> m, randomness |-> r, scalar |-> k]
            /\ out' = [ciphertext |-> c_mul,
                       decrypted |-> DecryptResult(keypair.secret, c_mul)]
            /\ UNCHANGED ledger_vars

InitElGamal == HarnessInit /\ LedgerInit

NextElGamal ==
    \/ EncryptionDecryption
    \/ HomomorphicAddition
    \/ ScalarMultiplication

SpecElGamal == InitElGamal /\ [][NextElGamal]_vars

\* The plaintext a scenario's final ciphertext encodes.
Plaintext ==
    CASE op = "encryption_decryption" -> args.message
      [] op = "homomorphic_addition" -> args.m1 + args.m2
      [] op = "scalar_multiplication" -> args.message * args.scalar

ElGamalOps == {"encryption_decryption", "homomorphic_addition", "scalar_multiplication"}

\* C1: for every secret (zero, reduced or unreduced), every message below
\* the bound and every randomness, decrypting the encryption of the message
\* under the keypair derived from the secret returns Ok(message).
C1_RoundTrip ==
    (op = "encryption_decryption" /\ args.message < BOUND)
        => out.decrypted = Ok(args.message)

C1_Witness ==
    /\ op = "encryption_decryption"
    /\ args.secret > GROUP_ORDER
    /\ args.randomness > GROUP_ORDER
    /\ args.message = BOUND - 1
    /\ out.decrypted = Ok(BOUND - 1)

\* C2: for messages m1, m2 with m1 + m2 below the bound and any
\* randomness r1, r2, equal or different, decrypting the sum of the two
\* encryptions returns Ok(m1 + m2).
C2_Homomorphism ==
    (op = "homomorphic_addition" /\ args.m1 + args.m2 < BOUND)
        => out.decrypted = Ok(args.m1 + args.m2)

C2_Witness ==
    /\ op = "homomorphic_addition"
    /\ args.m1 = 10 /\ args.m2 = 32
    /\ args.r1 = args.r2
    /\ args.secret # 0
    /\ out.decrypted = Ok(42)

\* C3: for any message m, randomness r and scalar k (zero included) with
\* m * k below the bound, decrypting the encryption of m multiplied by k
\* returns Ok(m * k).
C3_ScalarMultiplication ==
    (op = "scalar_multiplication" /\ args.message * args.scalar < BOUND)
        => out.decrypted = Ok(args.message * args.scalar)

C3_Witness ==
    /\ op = "scalar_multiplication"
    /\ args.message = 42 /\ args.scalar = 3
    /\ args.randomness # 0 /\ args.secret # 0
    /\ out.decrypted = Ok(126)

C3_WitnessZero ==
    /\ op = "scalar_multiplication"
    /\ args.message = BOUND + 1 /\ args.scalar = 0
    /\ out.decrypted = Ok(0)

\* C4: encryption accepts every message, also one at or above the bound;
\* decrypting a well-formed ciphertext whose plaintext is at or above the
\* bound returns Err(DecryptionFailed); and no decryption returns Ok(v)
\* with v at or above the bound.
C4_Boundary ==
    op \in ElGamalOps =>
        /\ out.ciphertext.ok
        /\ Plaintext >= BOUND => out.decrypted = Err("DecryptionFailed")
        /\ out.decrypted.ok => out.decrypted.val < BOUND

C4_Witness ==
    /\ op = "encryption_decryption"
    /\ args.message = BOUND
    /\ args.secret # 0
    /\ out.ciphertext.ok
    /\ out.decrypted = Err("DecryptionFailed")

---------------------------------------------------------------------------
(* Serialization (the derived BorshSerialize / BorshDeserialize of         *)
(* ElGamalPublicKey and ElGamalCiphertext; serde and Pod copy the same     *)
(* bytes).  The wire form is the sequence of the array's bytes.            *)

RECURSIVE to_le_bytes(_, _)
\* The `len` little-endian bytes of n.
to_le_bytes(n, len) ==
    IF len = 0 THEN <<>>
    ELSE <<n % BYTE_RADIX>> \o to_le_bytes(n \div BYTE_RADIX, len - 1)

RECURSIVE from_le_bytes(_)
\* The array a sequence of bytes spells.
from_le_bytes(bytes) ==
    IF bytes = <<>> THEN 0
    ELSE Head(bytes) + BYTE_RADIX * from_le_bytes(Tail(bytes))

\* #[derive(BorshSerialize)] for ElGamalPublicKey: the 32 bytes of point.
PublicKey_serialize(self) == to_le_bytes(self.point, ARRAY_LEN)

\* #[derive(BorshDeserialize)] for ElGamalPublicKey: reads 32 bytes into
\* point; no check of the point.
PublicKey_deserialize(buf) ==
    IF Len(buf) # ARRAY_LEN THEN Err("SerializationError")
    ELSE Ok([point |-> from_le_bytes(buf)])

\* #[derive(BorshSerialize)] for ElGamalCiphertext: c1 then c2.
Ciphertext_serialize(self) ==
    to_le_bytes(self.c1, ARRAY_LEN) \o to_le_bytes(self.c2, ARRAY_LEN)

\* #[derive(BorshDeserialize)] for ElGamalCiphertext: reads c1 then c2; no
\* check of either point.
Ciphertext_deserialize(buf) ==
    IF Len(buf) # 2 * ARRAY_LEN THEN Err("SerializationError")
    ELSE Ok([c1 |-> from_le_bytes(SubSeq(buf, 1, ARRAY_LEN)),
             c2 |-> from_le_bytes(SubSeq(buf, ARRAY_LEN + 1, 2 * ARRAY_LEN))])

---------------------------------------------------------------------------
(* Ciphertext operations and decoders applied to arbitrary bytes.          *)

\* Encodings of group elements (the identity, the basepoint, the last
\* element).
ValidComponents ==
    {compress(0), compress(BasepointMul(1)), compress(GROUP_ORDER - 1)}

\* Byte strings that encode no group element: a set low bit, and a value
\* beyond the last encoding.
InvalidComponents == {1, 2 * GROUP_ORDER}

ComponentInputs == ValidComponents \cup InvalidComponents

IsPoint(bytes) == decompress(bytes).some

RawSecrets == {1, GROUP_ORDER + 2}

\* secret.decrypt(&ciphertext) on a ciphertext of arbitrary bytes
DecryptRaw ==
    \E s \in RawSecrets, c1 \in ComponentInputs, c2 \in ComponentInputs :
        /\ op = "init"
        /\ op' = "decrypt"
        /\ args' = [secret |-> s, self |-> [c1 |-> c1, c2 |-> c2]]
        /\ out' = decrypt(SecretKey_from_bytes(s), [c1 |-> c1, c2 |-> c2])
        /\ UNCHANGED ledger_vars

\* self.add(&other) on ciphertexts of arbitrary bytes
AddRaw ==
    \E a1 \in ComponentInputs, a2 \in ComponentInputs,
       b1 \in ComponentInputs, b2 \in ComponentInputs :
        /\ op = "init"
        /\ op' = "add"
        /\ args' = [self |-> [c1 |-> a1, c2 |-> a2], other |-> [c1 |-> b1, c2 |-> b2]]
        /\ out' = add([c1 |-> a1, c2 |-> a2], [c1 |-> b1, c2 |-> b2])
        /\ UNCHANGED ledger_vars

\* self.mul_scalar(scalar) on a ciphertext of arbitrary bytes
MulScalarRaw ==
    \E c1 \in ComponentInputs, c2 \in ComponentInputs, k \in ScalarInputs :
        /\ op = "init"
        /\ op' = "mul_scalar"
        /\ args' = [self |-> [c1 |-> c1, c2 |-> c2], scalar |-> k]
        /\ out' = mul_scalar([c1 |-> c1, c2 |-> c2], k)
        /\ UNCHANGED ledger_vars

ValidCiphertexts == [c1 : ValidComponents, c2 : ValidComponents]

\* a.add(&b)?.add(&c) against a.add(&b.add(&c)?), and a.add(&b) against
\* b.add(&a), on ciphertexts of valid points
AddFolds ==
    \E a \in ValidCiphertexts, b \in ValidCiphertexts, c \in ValidCiphertexts :
        LET ab == add(a, b)
            bc == add(b, c)
        IN  /\ op = "init"
            /\ op' = "add_folds"
            /\ args' = [a |-> a, b |-> b, c |-> c]
            /\ out' = [ab |-> ab,
                       ba |-> add(b, a),
                       ab_c |-> IF ab.ok THEN add(ab.val, c) ELSE ab,
                       a_bc |-> IF bc.ok THEN add(a, bc.val) ELSE bc]
            /\ UNCHANGED ledger_vars

\* test_serialization: borsh::to_vec(&keypair.public), then borsh::from_slice
PublicKeySerialization ==
    \E s \in SecretInputs :
        LET keypair == from_secret(SecretKey_from_bytes(s))
            serialized == PublicKey_serialize(keypair.public)
        IN  /\ op = "init"
            /\ op' = "public_key_serialization"
            /\ args' = [value |-> keypair.public]
            /\ out' = [serialized |-> serialized,
                       deserialized |-> PublicKey_deserialize(serialized)]
            /\ UNCHANGED ledger_vars

\* the same round trip of a ciphertext that encrypt_with_randomness made
CiphertextSerialization ==
    \E s \in SecretInputs, m \in MessageInputs, r \in RandomnessInputs :
        LET keypair == from_secret(SecretKey_from_bytes(s))
            ciphertext == encrypt_with_randomness(keypair.public, m, r).val
            serialized == Ciphertext_serialize(ciphertext)
        IN  /\ op = "init"
            /\ op' = "ciphertext_serialization"
            /\ args' = [value |-> ciphertext]
            /\ out' = [serialized |-> serialized,
                       deserialized |-> Ciphertext_deserialize(serialized)]
            /\ UNCHANGED ledger_vars

\* decoding 32 arbitrary bytes as a public key: ElGamalPublicKey::from_bytes
\* and the derived decoder
PublicKeyDecode ==
    \E bytes \in ComponentInputs :
        /\ op = "init"
        /\ op' = "public_key_decode"
        /\ args' = [bytes |-> bytes]
        /\ out' = [from_bytes |-> PublicKey_from_bytes(bytes),
                   derived |-> PublicKey_deserialize(to_le_bytes(bytes, ARRAY_LEN))]
        /\ UNCHANGED ledger_vars

\* decoding 64 arbitrary bytes as a ciphertext: the derived decoder (the
\* type has no from_bytes)
CiphertextDecode ==
    \E c1 \in ComponentInputs, c2 \in ComponentInputs :
        /\ op = "init"
        /\ op' = "ciphertext_decode"
        /\ args' = [c1 |-> c1, c2 |-> c2]
        /\ out' = [derived |-> Ciphertext_deserialize(
                       to_le_bytes(c1, ARRAY_LEN) \o to_le_bytes(c2, ARRAY_LEN))]
        /\ UNCHANGED ledger_vars

InitCiphertext == HarnessInit /\ LedgerInit

NextCiphertext ==
    \/ DecryptRaw
    \/ AddRaw
    \/ MulScalarRaw
    \/ AddFolds
    \/ PublicKeySerialization
    \/ CiphertextSerialization
    \/ PublicKeyDecode
    \/ CiphertextDecode

SpecCiphertext == InitCiphertext /\ [][NextCiphertext]_vars

\* C5: decrypt, add and mul_scalar return Err(InvalidCiphertext), and
\* neither Err(DecryptionFailed) nor Ok, whenever a component of an input
\* ciphertext (self or other) encodes no group element, whatever the other
\* components are.
C5_MalformedFailClosed ==
    /\ (op \in {"decrypt", "mul_scalar"}
        /\ (~IsPoint(args.self.c1) \/ ~IsPoint(args.self.c2)))
            => out = Err("InvalidCiphertext")
    /\ (op = "add"
        /\ (~IsPoint(args.self.c1) \/ ~IsPoint(args.self.c2)
            \/ ~IsPoint(args.other.c1) \/ ~IsPoint(args.other.c2)))
            => out = Err("InvalidCiphertext")

C5_Witness ==
    /\ op = "decrypt"
    /\ IsPoint(args.self.c1)
    /\ ~IsPoint(args.self.c2)
    /\ out = Err("InvalidCiphertext")

C5_WitnessAdd ==
    /\ op = "add"
    /\ IsPoint(args.self.c1) /\ IsPoint(args.self.c2) /\ IsPoint(args.other.c1)
    /\ ~IsPoint(args.other.c2)
    /\ out = Err("InvalidCiphertext")

\* The parts of C6 the code keeps: a serialized public key or ciphertext
\* deserializes to the value it was, and from_bytes refuses bytes that
\* encode no group element.
SerializationRoundTrip ==
    /\ op \in {"public_key_serialization", "ciphertext_serialization"}
        => out.deserialized = Ok(args.value)
    /\ (op = "public_key_decode" /\ ~IsPoint(args.bytes))
        => out.from_bytes = Err("InvalidPublicKey")

\* C6: a serialized public key or ciphertext deserializes to the value it
\* was, and decoding bytes that encode no group element returns
\* InvalidPublicKey (a public key) or InvalidCiphertext (a ciphertext
\* component) on every decode path, from_bytes and the derived decoders.
C6_DecodersRejectNonPoints ==
    /\ SerializationRoundTrip
    /\ (op = "public_key_decode" /\ ~IsPoint(args.bytes))
        => out.derived = Err("InvalidPublicKey")
    /\ (op = "ciphertext_decode" /\ (~IsPoint(args.c1) \/ ~IsPoint(args.c2)))
        => out.derived = Err("InvalidCiphertext")

\* C7: for valid ciphertexts a, b, c the sums a + b and b + a are the same
\* 64 bytes, and so are (a + b) + c and a + (b + c).
C7_AddCommutativeAssociative ==
    op = "add_folds" =>
        /\ out.ab.ok /\ out.ab_c.ok
        /\ out.ab = out.ba
        /\ out.ab_c = out.a_bc

C7_Witness ==
    /\ op = "add_folds"
    /\ args.a # args.b /\ args.b # args.c /\ args.a # args.c
    /\ out.ab.ok /\ out.ab = out.ba
    /\ out.ab_c.ok /\ out.ab_c = out.a_bc
    /\ out.ab_c.val # args.a

---------------------------------------------------------------------------
(* Nullifiers and commitments (crates/crypto/src/nullifier.rs and          *)
(* commitment.rs).  Keccak-256 is modelled as a collision-free digest: the *)
(* digest of a byte sequence is a value that names that sequence.          *)

\* The bytes of a u64: nonce.to_le_bytes()
U64_LEN == 8

\* Keccak256::new(), update(..) of each part in turn, finalize().
Keccak256(data) == [keccak256 |-> data]

compute_nullifier_nonce_as_u8(voter_secret, election_id, nonce) ==
    Keccak256(to_le_bytes(voter_secret, ARRAY_LEN)
              \o to_le_bytes(election_id, ARRAY_LEN)
              \o to_le_bytes(nonce, 1))

\* compute_nullifier
compute_nullifier(voter_secret, election_id, nonce) ==
    Keccak256(to_le_bytes(voter_secret, ARRAY_LEN)
              \o to_le_bytes(election_id, ARRAY_LEN)
              \o to_le_bytes(nonce, U64_LEN))

\* compute_nullifier_with_pubkey
compute_nullifier_with_pubkey(voter_secret, election_pubkey, nonce) ==
    compute_nullifier(voter_secret, election_pubkey, nonce)

\* verify_nullifier
verify_nullifier(nullifier, voter_secret, election_id, nonce) ==
    LET computed == compute_nullifier(voter_secret, election_id, nonce)
    IN  computed = nullifier

commit_vote_blinding_only(vote, blinding_factor) ==
    Keccak256(to_le_bytes(blinding_factor, ARRAY_LEN))

\* commit_vote
commit_vote(vote, blinding_factor) ==
    Keccak256(<<vote>> \o to_le_bytes(blinding_factor, ARRAY_LEN))

\* verify_commitment
verify_commitment(commitment, vote, blinding_factor) ==
    LET computed == commit_vote(vote, blinding_factor)
    IN  computed = commitment

\* commit_encrypted_vote
commit_encrypted_vote(encrypted_vote, randomness) ==
    Keccak256(encrypted_vote \o to_le_bytes(randomness, ARRAY_LEN))

\* 32-byte voter secrets, election ids and blinding factors; arrays that
\* differ in their first byte, in their second, or in both.
ArrayInputs == {1, 2, BYTE_RADIX, BYTE_RADIX + 1}

\* u64 nonces that differ in their first byte or in a later one.
NonceInputs == {0, 1, BYTE_RADIX, BYTE_RADIX * BYTE_RADIX}

\* u8 votes.
VoteInputs == {0, 1, 3, BYTE_RADIX - 1}

HashSecrets == {1, 2, BYTE_RADIX}
HashElections == {2, 3, BYTE_RADIX + 1}

\* two nullifiers, and verify_nullifier of the first against the second's
\* inputs
Nullifiers ==
    \E s1 \in HashSecrets, s2 \in HashSecrets, e1 \in HashElections,
       e2 \in HashElections, n1 \in NonceInputs, n2 \in NonceInputs :
        LET nullifier1 == compute_nullifier(s1, e1, n1)
            nullifier2 == compute_nullifier(s2, e2, n2)
        IN  /\ op = "init"
            /\ op' = "nullifiers"
            /\ args' = [first |-> <<s1, e1, n1>>, second |-> <<s2, e2, n2>>]
            /\ out' = [nullifier1 |-> nullifier1,
                       nullifier2 |-> nullifier2,
                       again |-> compute_nullifier(s1, e1, n1),
                       verified |-> verify_nullifier(nullifier1, s2, e2, n2)]
            /\ UNCHANGED ledger_vars

\* two commitments, and verify_commitment of the first against the second's
\* inputs
Commitments ==
    \E v1 \in VoteInputs, v2 \in VoteInputs,
       b1 \in ArrayInputs, b2 \in ArrayInputs :
        LET commitment1 == commit_vote(v1, b1)
            commitment2 == commit_vote(v2, b2)
        IN  /\ op = "init"
            /\ op' = "commitments"
            /\ args' = [first |-> <<v1, b1>>, second |-> <<v2, b2>>]
            /\ out' = [commitment1 |-> commitment1,
                       commitment2 |-> commitment2,
                       again |-> commit_vote(v1, b1),
                       verified |-> verify_commitment(commitment1, v2, b2)]
            /\ UNCHANGED ledger_vars

InitHash == HarnessInit /\ LedgerInit

NextHash ==
    \/ Nullifiers
    \/ Commitments

SpecHash == InitHash /\ [][NextHash]_vars

\* C8: compute_nullifier returns the same digest for the same inputs, a
\* different digest when voter_secret, election_id or nonce differs, and
\* verify_nullifier accepts exactly the inputs that made the nullifier.
C8_Nullifier ==
    op = "nullifiers" =>
        /\ out.again = out.nullifier1
        /\ (out.nullifier1 = out.nullifier2) <=> (args.first = args.second)
        /\ out.verified <=> (args.first = args.second)

C8_Witness ==
    /\ op = "nullifiers"
    /\ args.first[1] = args.second[1]
    /\ args.first[2] = args.second[2]
    /\ args.first[3] = 0 /\ args.second[3] = BYTE_RADIX
    /\ out.nullifier1 # out.nullifier2
    /\ ~out.verified

\* C9: commit_vote returns the same digest for the same inputs, a
\* different digest when the vote or the blinding factor differs, and
\* verify_commitment accepts exactly the pair that made the commitment.
C9_Commitment ==
    op = "commitments" =>
        /\ out.again = out.commitment1
        /\ (out.commitment1 = out.commitment2) <=> (args.first = args.second)
        /\ out.verified <=> (args.first = args.second)

C9_Witness ==
    /\ op = "commitments"
    /\ args.first[1] = 0 /\ args.second[1] = 1
    /\ args.first[2] = args.second[2]
    /\ out.commitment1 # out.commitment2
    /\ ~out.verified

---------------------------------------------------------------------------
(* The ledger program (programs/privacy-layer): accounts and instructions. *)
(* An instruction is atomic: when account validation, the handler or the   *)
(* write-back of the accounts fails, no account changes.                   *)

\* The latest time the model's clock reaches, and the number of nullifier
\* values voters present.
MaxClock == 2
MaxNullifiers == 2

\* The number of EncryptedVote accounts a run of the model creates.
MaxVotes == 2

\* space = 8 + NullifierSet::INIT_LEN + 10000
NULLIFIER_RESERVE == 10000

\* The largest value of total_encrypted_votes.  u64::MAX is beyond the
\* integers TLC computes with; the largest of those stands for it, and no
\* run of the model comes near either.
U64_MAX == 2147483647

\* NullifierSet::INIT_LEN: discriminator, bump, election, vec length prefix
INIT_LEN == 8 + 1 + ARRAY_LEN + 4

\* The space the nullifier_set account is created with.
NullifierSetSpace == 8 + INIT_LEN + NULLIFIER_RESERVE

\* The bytes a NullifierSet serializes to: discriminator, bump, election,
\* the vec's length prefix and 32 bytes for each nullifier.
NullifierSetSize(self) == 8 + 1 + ARRAY_LEN + 4 + ARRAY_LEN * Len(self.nullifiers)

\* NullifierSet::contains
contains(self, nullifier) ==
    \E i \in 1..Len(self.nullifiers) : self.nullifiers[i] = nullifier

\* NullifierSet::insert
insert(self, nullifier) ==
    IF contains(self, nullifier)
    THEN Err("NullifierAlreadyUsed")
    ELSE Ok([self EXCEPT !.nullifiers = Append(@, nullifier)])

\* NullifierSet::len
len(self) == Len(self.nullifiers)

checked_add_keeps(a, b) == IF a > U64_MAX - b THEN None ELSE Some(a)

\* u64::checked_add
checked_add(a, b) == IF a > U64_MAX - b THEN None ELSE Some(a + b)

\* The address of an EncryptedVote account:
\* seeds = [b"encrypted_vote", private_election.key(), nullifier]
EncryptedVoteAddress(election, nullifier) == <<"encrypted_vote", election, nullifier>>

\* Whether an account lives at the address (init fails when one does).
InUse(accounts, address) == \E a \in accounts : a.address = address

\* initialize_private_election: the accounts of InitializePrivateElection
\* and the handler.
initialize_private_election(election, election_id, mpc_public_key, voter_merkle_root, ends_at, num_options) ==
    IF private_elections[election].exists \/ nullifier_sets[election].exists
    THEN Err("AccountAlreadyInUse")
    ELSE Ok([private_election |->
                [exists |-> TRUE,
                 authority |-> "authority",
                 election |-> election,
                 mpc_public_key |-> mpc_public_key,
                 voter_merkle_root |-> voter_merkle_root,
                 election_id |-> election_id,
                 total_encrypted_votes |-> 0,
                 tally_requested |-> FALSE,
                 tally_finalized |-> FALSE,
                 created_at |-> clock,
                 ends_at |-> ends_at,
                 num_options |-> num_options,
                 status |-> "Active"],
             nullifier_set |->
                [exists |-> TRUE,
                 election |-> election,
                 nullifiers |-> <<>>]])

\* cast_encrypted_vote's handler, on accounts that passed validation.
cast_encrypted_vote_handler(private_election, nullifier_set, ciphertext_c1, ciphertext_c2, nullifier, commitment) ==
    LET current_time == clock
        encrypted_vote ==
            [address |-> EncryptedVoteAddress(private_election.election, nullifier),
             election |-> private_election.election,
             ciphertext_c1 |-> ciphertext_c1,
             ciphertext_c2 |-> ciphertext_c2,
             nullifier |-> nullifier,
             commitment |-> commitment,
             timestamp |-> current_time]
        inserted == insert(nullifier_set, nullifier)
        total == checked_add(private_election.total_encrypted_votes, 1)
    IN  IF ~(current_time < private_election.ends_at)
        THEN Err("ElectionEnded")
        ELSE IF contains(nullifier_set, nullifier)
        THEN Err("NullifierAlreadyUsed")
        ELSE IF ~inserted.ok
        THEN inserted
        ELSE IF ~total.some
        THEN Err("ArithmeticOverflow")
        ELSE Ok([private_election |->
                    [private_election EXCEPT !.total_encrypted_votes = total.val],
                 nullifier_set |-> inserted.val,
                 encrypted_vote |-> encrypted_vote])

\* cast_encrypted_vote: the accounts of CastEncryptedVote in their order
\* (private_election with its status constraint, encrypted_vote with init,
\* nullifier_set), the handler, and the write-back of the accounts.
cast_encrypted_vote(election, ciphertext_c1, ciphertext_c2, nullifier, commitment) ==
    LET private_election == private_elections[election]
        nullifier_set == nullifier_sets[election]
        handled == cast_encrypted_vote_handler(private_election, nullifier_set,
                       ciphertext_c1, ciphertext_c2, nullifier, commitment)
    IN  IF ~private_election.exists
        THEN Err("AccountNotInitialized")
        ELSE IF private_election.status # "Active"
        THEN Err("ElectionNotActive")
        ELSE IF InUse(encrypted_votes, EncryptedVoteAddress(election, nullifier))
        THEN Err("AccountAlreadyInUse")
        ELSE IF ~nullifier_set.exists
        THEN Err("AccountNotInitialized")
        ELSE IF ~handled.ok
        THEN handled
        ELSE IF NullifierSetSize(handled.val.nullifier_set) > NullifierSetSpace
        THEN Err("AccountDidNotSerialize")
        ELSE handled

---------------------------------------------------------------------------
(* The ledger's instructions applied to bounded inputs.                    *)

\* The tally authority's secret and the election key made from it.
TallySecret == SecretKey_from_bytes(12345)
ElectionPublicKey == from_secret(TallySecret).public

\* mpc_public_key
MpcKeyInputs == {ElectionPublicKey.point}

\* ends_at
EndsAtInputs == {1, MaxClock}

\* nullifier
NullifierInputs == 1..MaxNullifiers

\* (ciphertext_c1, ciphertext_c2): encryptions of the votes 1 and
\* BOUND - 1 under the election key.
CastCiphertexts ==
    {encrypt_with_randomness(ElectionPublicKey, 1, 3).val,
     encrypt_with_randomness(ElectionPublicKey, BOUND - 1, 5).val}

\* The EncryptedVote accounts of an election, and the three kinds of
\* account an election has.
VotesOf(election) == {v \in encrypted_votes : v.election = election}

AccountsOf(election) ==
    [private_election |-> private_elections[election],
     nullifier_set |-> nullifier_sets[election],
     encrypted_votes |-> VotesOf(election)]

\* The instruction initialize_private_election, its election drawn from
\* `elections`, its key from `keys` and its ends_at from `ends`.
InitializeFrom(elections, keys, ends) ==
    \E election \in elections, mpc_public_key \in keys, ends_at \in ends :
        LET result == initialize_private_election(election, election,
                          mpc_public_key, 0, ends_at, 2)
        IN  /\ last' = [instruction |-> "initialize_private_election",
                        election |-> election,
                        result |-> IF result.ok THEN "Ok" ELSE result.err]
            /\ IF result.ok
               THEN /\ private_elections' =
                        [private_elections EXCEPT ![election] = result.val.private_election]
                    /\ nullifier_sets' =
                        [nullifier_sets EXCEPT ![election] = result.val.nullifier_set]
               ELSE UNCHANGED <<private_elections, nullifier_sets>>
            /\ UNCHANGED <<encrypted_votes, clock, harness_vars>>

\* The instruction cast_encrypted_vote, its election drawn from
\* `elections`, its ciphertext from `ciphertexts` and its nullifier from
\* `nullifiers`, while fewer than `cap` votes are stored.  `present`,
\* `ended` and `before` record what held when it ran: the nullifier was in
\* the election's set, the clock had reached ends_at, and the election's
\* accounts.
CastFrom(elections, ciphertexts, nullifiers, cap) ==
    \E election \in elections, ciphertext \in ciphertexts,
       nullifier \in nullifiers :
        LET result == cast_encrypted_vote(election, ciphertext.c1, ciphertext.c2,
                                          nullifier, 0)
        IN  /\ Cardinality(encrypted_votes) < cap
            /\ last' = [instruction |-> "cast_encrypted_vote",
                        election |-> election,
                        nullifier |-> nullifier,
                        present |-> /\ nullifier_sets[election].exists
                                    /\ contains(nullifier_sets[election], nullifier),
                        ended |-> /\ private_elections[election].exists
                                  /\ clock >= private_elections[election].ends_at,
                        before |-> AccountsOf(election),
                        result |-> IF result.ok THEN "Ok" ELSE result.err]
            /\ IF result.ok
               THEN /\ private_elections' =
                        [private_elections EXCEPT ![election] = result.val.private_election]
                    /\ nullifier_sets' =
                        [nullifier_sets EXCEPT ![election] = result.val.nullifier_set]
                    /\ encrypted_votes' =
                        encrypted_votes \cup {result.val.encrypted_vote}
               ELSE UNCHANGED <<private_elections, nullifier_sets, encrypted_votes>>
            /\ UNCHANGED <<clock, harness_vars>>

\* The two instructions over both elections, with the key and the
\* ciphertext drawn from the given sets.
InitializeWith(keys) == InitializeFrom(ElectionKeys, keys, EndsAtInputs)

CastWith(ciphertexts) ==
    CastFrom(ElectionKeys, ciphertexts, NullifierInputs, MaxVotes)

InitializePrivateElection == InitializeWith(MpcKeyInputs)

CastEncryptedVote == CastWith(CastCiphertexts)

\* Time passes between instructions.
Tick ==
    /\ clock < MaxClock
    /\ clock' = clock + 1
    /\ UNCHANGED <<private_elections, nullifier_sets, encrypted_votes, last,
                   harness_vars>>

Init == HarnessInit /\ LedgerInit

Next ==
    \/ InitializePrivateElection
    \/ CastEncryptedVote
    \/ Tick

Spec == Init /\ [][Next]_vars

NoDuplicates(seq) ==
    \A i \in 1..Len(seq), j \in 1..Len(seq) : seq[i] = seq[j] => i = j

\* What the ledger keeps of C10: no election's set holds a nullifier
\* twice, an election holds at most one EncryptedVote for a nullifier, a
\* cast whose nullifier is in the election's set is refused and changes no
\* account, and insert of a present nullifier returns NullifierAlreadyUsed.
NoDoubleVoting ==
    /\ \A e \in ElectionKeys :
        nullifier_sets[e].exists => NoDuplicates(nullifier_sets[e].nullifiers)
    /\ \A v1 \in encrypted_votes, v2 \in encrypted_votes :
        (v1.election = v2.election /\ v1.nullifier = v2.nullifier) => v1 = v2
    /\ (last.instruction = "cast_encrypted_vote" /\ last.present)
        => /\ last.result # "Ok"
           /\ AccountsOf(last.election) = last.before
    /\ \A e \in ElectionKeys, n \in NullifierInputs :
        (nullifier_sets[e].exists /\ contains(nullifier_sets[e], n))
            => insert(nullifier_sets[e], n) = Err("NullifierAlreadyUsed")

\* C10: no election's set holds a nullifier twice and an election holds at
\* most one EncryptedVote for a nullifier; a cast whose nullifier is in the
\* election's set is refused with NullifierAlreadyUsed and changes no
\* account; and insert of a present nullifier returns NullifierAlreadyUsed.
C10_DoubleVoteRefusedAsNullifierAlreadyUsed ==
    /\ NoDoubleVoting
    /\ (last.instruction = "cast_encrypted_vote" /\ last.present)
        => last.result = "NullifierAlreadyUsed"

\* A second cast with a used nullifier, refused.
DoubleVoteRefused ==
    /\ last.instruction = "cast_encrypted_vote"
    /\ last.present
    /\ last.result # "Ok"
    /\ Cardinality(VotesOf(last.election)) = 1

---------------------------------------------------------------------------
(* Cast gating.                                                            *)

\* What the ledger keeps of C11: no stored EncryptedVote has a timestamp
\* at or after its election's ends_at, a cast succeeds only on an Active
\* election before ends_at, and a cast at or after ends_at is refused and
\* changes no account.
CastGating ==
    /\ \A v \in encrypted_votes :
        v.timestamp < private_elections[v.election].ends_at
    /\ (last.instruction = "cast_encrypted_vote" /\ last.result = "Ok")
        => /\ ~last.ended
           /\ last.before.private_election.status = "Active"
    /\ (last.instruction = "cast_encrypted_vote" /\ last.ended)
        => /\ last.result # "Ok"
           /\ AccountsOf(last.election) = last.before

\* C11: a cast succeeds only on an Active election at a time strictly
\* before ends_at; a cast at or after ends_at is rejected with
\* ElectionEnded and a cast on an election that is not Active with
\* ElectionNotActive, neither storing a vote, inserting the nullifier nor
\* incrementing total_encrypted_votes; no stored EncryptedVote has a
\* timestamp at or after its election's ends_at.
C11_CastGating ==
    /\ CastGating
    /\ (last.instruction = "cast_encrypted_vote" /\ last.ended)
        => last.result = "ElectionEnded"
    /\ ( /\ last.instruction = "cast_encrypted_vote"
         /\ last.before.private_election.exists
         /\ last.before.private_election.status # "Active" )
        => last.result = "ElectionNotActive"

\* A cast at exactly ends_at, refused with ElectionEnded.
EndedCastRefused ==
    /\ last.instruction = "cast_encrypted_vote"
    /\ last.ended
    /\ clock = last.before.private_election.ends_at
    /\ last.result = "ElectionEnded"

---------------------------------------------------------------------------
(* The tally: the stored ciphertexts of an election folded with add and    *)
(* decrypted with the tally authority's secret key.                        *)

\* The election that is tallied.
TallyElections == {"electionA"}

\* The votes and the randomness the voters encrypt with.
TallyBallots ==
    {[vote |-> 0, randomness |-> 2],
     [vote |-> 1, randomness |-> 3],
     [vote |-> 42, randomness |-> 9],
     [vote |-> BOUND - 1, randomness |-> 5]}

\* encrypt_with_randomness under the election key.
BallotCiphertext(ballot) ==
    encrypt_with_randomness(ElectionPublicKey, ballot.vote, ballot.randomness).val

TallyCiphertexts == {BallotCiphertext(b) : b \in TallyBallots}

\* The ciphertext an EncryptedVote account stores, and the vote it was
\* made from.
StoredCiphertext(encrypted_vote) ==
    [c1 |-> encrypted_vote.ciphertext_c1, c2 |-> encrypted_vote.ciphertext_c2]

VoteOf(encrypted_vote) ==
    (CHOOSE b \in TallyBallots :
        BallotCiphertext(b) = StoredCiphertext(encrypted_vote)).vote

\* The orders in which the accounts of a set can be visited.
Orderings(S) ==
    {order \in [1..Cardinality(S) -> S] :
        \A i \in 1..Cardinality(S), j \in 1..Cardinality(S) :
            order[i] = order[j] => i = j}

\* add, folded from the left over a non-empty sequence of ciphertexts.
RECURSIVE FoldAdd(_)
FoldAdd(ciphertexts) ==
    IF Len(ciphertexts) = 1
    THEN Ok(ciphertexts[1])
    ELSE LET front == FoldAdd(SubSeq(ciphertexts, 1, Len(ciphertexts) - 1))
         IN  IF ~front.ok
             THEN front
             ELSE add(front.val, ciphertexts[Len(ciphertexts)])

RECURSIVE SumOf(_)
SumOf(numbers) ==
    IF Len(numbers) = 0
    THEN 0
    ELSE numbers[Len(numbers)] + SumOf(SubSeq(numbers, 1, Len(numbers) - 1))

\* The tally of an election's stored votes, visited in some order.
TallyVotes ==
    /\ op = "init"
    /\ \E election \in TallyElections :
        /\ VotesOf(election) # {}
        /\ \E order \in Orderings(VotesOf(election)) :
            LET ciphertexts ==
                    [i \in 1..Len(order) |-> StoredCiphertext(order[i])]
                votes == [i \in 1..Len(order) |-> VoteOf(order[i])]
                aggregate == FoldAdd(ciphertexts)
            IN  /\ op' = "tally"
                /\ args' = [election |-> election,
                            order |-> [i \in 1..Len(order) |-> order[i].nullifier]]
                /\ out' = [votes |-> votes,
                           sum |-> SumOf(votes),
                           decrypted |-> IF aggregate.ok
                                         THEN decrypt(TallySecret, aggregate.val)
                                         ELSE aggregate]
    /\ UNCHANGED ledger_vars

\* The instructions that come before the tally.
TallyInitialize ==
    /\ op = "init"
    /\ InitializeFrom(TallyElections, MpcKeyInputs, {MaxClock})

TallyCast ==
    /\ op = "init"
    /\ CastFrom(TallyElections, TallyCiphertexts, NullifierInputs, MaxVotes)

NextTally ==
    \/ TallyInitialize
    \/ TallyCast
    \/ TallyVotes

SpecTally == Init /\ [][NextTally]_vars

\* C12: the stored ciphertexts of an election, made by
\* encrypt_with_randomness under the election key from votes v_1..v_n,
\* folded with add in any order and decrypted with the matching secret
\* key, give Ok(v_1 + .. + v_n) when the sum is below 10000 and
\* Err(DecryptionFailed) otherwise, never another value.
C12_EndToEndTally ==
    op = "tally" =>
        out.decrypted = IF out.sum < BOUND
                        THEN Ok(out.sum)
                        ELSE Err("DecryptionFailed")

\* A tally of two votes that decrypts to their non-zero sum, the later
\* nullifier visited first.
C12_Witness ==
    /\ op = "tally"
    /\ Len(out.votes) = 2
    /\ args.order[1] > args.order[2]
    /\ out.votes[1] > 0 /\ out.votes[2] > 0
    /\ out.decrypted = Ok(out.votes[1] + out.votes[2])

\* A tally whose sum is exactly the bound, which fails closed.
C12_WitnessOverflow ==
    /\ op = "tally"
    /\ out.sum = BOUND
    /\ out.decrypted = Err("DecryptionFailed")

---------------------------------------------------------------------------
(* The ledger's instructions given bytes that are not points.              *)

\* mpc_public_key: the election key, and 32 bytes that do not decompress.
UncheckedKeys == {ElectionPublicKey.point, 1}

\* (ciphertext_c1, ciphertext_c2): an encryption under the election key,
\* and ciphertexts whose c1 or whose c2 does not decompress.
UncheckedCiphertexts ==
    {BallotCiphertext([vote |-> 1, randomness |-> 3]),
     [c1 |-> 1, c2 |-> compress(0)],
     [c1 |-> compress(0), c2 |-> 2 * GROUP_ORDER]}

PointsInitialize == InitializeFrom(TallyElections, UncheckedKeys, EndsAtInputs)

PointsCast ==
    CastFrom(TallyElections, UncheckedCiphertexts, NullifierInputs, MaxVotes)

NextPoints ==
    \/ PointsInitialize
    \/ PointsCast
    \/ Tick

SpecPoints == Init /\ [][NextPoints]_vars

\* The stored ciphertexts of an election summed in some order.
StoredSums(election) ==
    {FoldAdd([i \in 1..Len(order) |-> StoredCiphertext(order[i])]) :
        order \in Orderings(VotesOf(election))}

\* C13: initialize_private_election rejects an mpc_public_key that is not
\* a valid compressed point and cast_encrypted_vote rejects a vote whose
\* ciphertext_c1 or ciphertext_c2 is not one, so every stored election key
\* and every stored EncryptedVote ciphertext decompresses, and summing the
\* stored ciphertexts never fails with InvalidCiphertext.
C13_PointsValidated ==
    /\ \A e \in ElectionKeys :
        private_elections[e].exists
            => decompress(private_elections[e].mpc_public_key).some
    /\ \A v \in encrypted_votes :
        /\ decompress(v.ciphertext_c1).some
        /\ decompress(v.ciphertext_c2).some
    /\ \A e \in ElectionKeys :
        VotesOf(e) # {} => Err("InvalidCiphertext") \notin StoredSums(e)

\* An election key that does not decompress, stored.
InvalidKeyStored ==
    \E e \in ElectionKeys :
        /\ private_elections[e].exists
        /\ ~decompress(private_elections[e].mpc_public_key).some

\* The stored ciphertexts of an election with a valid key cannot be
\* summed: one of them does not decompress.
InvalidCiphertextStored ==
    \E e \in ElectionKeys :
        /\ private_elections[e].exists
        /\ decompress(private_elections[e].mpc_public_key).some
        /\ Cardinality(VotesOf(e)) = 2
        /\ StoredSums(e) = {Err("InvalidCiphertext")}

---------------------------------------------------------------------------
(* encrypt_with_randomness applied twice.                                  *)

\* The public keys of two secrets.
ReuseKeys ==
    {from_secret(SecretKey_from_bytes(1)).public, ElectionPublicKey}

\* message: u64, every value of which is below the group order.
ReuseMessages == {0, 1, BOUND, GROUP_ORDER - 1}

\* randomness: 32 bytes; 1 and GROUP_ORDER + 1 are the same scalar.
ReuseRandomness == {0, 1, 77, GROUP_ORDER + 1}

\* Two encryptions under one key with the same randomness bytes.
RandomnessReuse ==
    /\ op = "init"
    /\ \E key \in ReuseKeys, m1 \in ReuseMessages, m2 \in ReuseMessages,
          r \in ReuseRandomness :
        /\ op' = "randomness_reuse"
        /\ args' = [key1 |-> key, key2 |-> key, m1 |-> m1, m2 |-> m2,
                    r1 |-> r, r2 |-> r]
        /\ out' = [first |-> encrypt_with_randomness(key, m1, r),
                   second |-> encrypt_with_randomness(key, m2, r)]
    /\ UNCHANGED ledger_vars

\* Two encryptions, the keys, messages and randomness drawn freely.
EncryptTwice ==
    /\ op = "init"
    /\ \E key1 \in ReuseKeys, key2 \in ReuseKeys,
          m1 \in ReuseMessages, m2 \in ReuseMessages,
          r1 \in ReuseRandomness, r2 \in ReuseRandomness :
        /\ op' = "encrypt_twice"
        /\ args' = [key1 |-> key1, key2 |-> key2, m1 |-> m1, m2 |-> m2,
                    r1 |-> r1, r2 |-> r2]
        /\ out' = [first |-> encrypt_with_randomness(key1, m1, r1),
                   second |-> encrypt_with_randomness(key2, m2, r2)]
    /\ UNCHANGED ledger_vars

InitRandomness == HarnessInit /\ LedgerInit

NextRandomness ==
    \/ RandomnessReuse
    \/ EncryptTwice

SpecRandomness == InitRandomness /\ [][NextRandomness]_vars

\* C14: the c1 of encrypt_with_randomness depends only on the randomness,
\* not on the message or the public key: two encryptions have the same c1
\* exactly when their randomness is the same modulo the group order; and
\* under the same key with the same randomness their c2 are equal exactly
\* when the messages are equal.
C14_RandomnessReuseObservable ==
    op \in {"randomness_reuse", "encrypt_twice"} =>
        /\ out.first.ok /\ out.second.ok
        /\ (out.first.val.c1 = out.second.val.c1)
            <=> (from_bytes_mod_order(args.r1) = from_bytes_mod_order(args.r2))
        /\ (args.key1 = args.key2 /\ args.r1 = args.r2)
            => ((out.first.val.c2 = out.second.val.c2) <=> (args.m1 = args.m2))

\* The same key and randomness with two messages: the c1 agree, the c2
\* do not.
C14_Witness ==
    /\ op = "randomness_reuse"
    /\ args.m1 # args.m2
    /\ out.first.val.c1 = out.second.val.c1
    /\ out.first.val.c2 # out.second.val.c2

\* Different keys and messages, randomness bytes that differ and are the
\* same scalar: the c1 agree.
C14_WitnessAcrossKeys ==
    /\ op = "encrypt_twice"
    /\ args.key1 # args.key2
    /\ args.m1 # args.m2
    /\ args.r1 # args.r2
    /\ out.first.val.c1 = out.second.val.c1

---------------------------------------------------------------------------
(* One election filled with votes up to the space of its NullifierSet.     *)

\* The number of nullifiers whose serialization fits the space the
\* NullifierSet account is created with.
NullifierCapacity == (NullifierSetSpace - NullifierSetSize([nullifiers |-> <<>>])) \div ARRAY_LEN

\* nullifier: the first one cast, or one not cast yet.
NextNullifiers ==
    {1} \cup {len(nullifier_sets[e]) + 1 :
                e \in {k \in TallyElections : nullifier_sets[k].exists}}

CapacityInitialize == InitializeFrom(TallyElections, MpcKeyInputs, {MaxClock})

CapacityCast ==
    CastFrom(TallyElections, {BallotCiphertext([vote |-> 1, randomness |-> 3])}, NextNullifiers, NullifierCapacity + 1)

NextCapacity ==
    \/ CapacityInitialize
    \/ CapacityCast

SpecCapacity == Init /\ [][NextCapacity]_vars

\* C15: in an Active election before ends_at, a cast with a nullifier that
\* is not in the election's set succeeds however many votes were cast
\* before; the space reserved for the NullifierSet does not limit the
\* number of accepted votes.
C15_NullifierSetGrows ==
    ( /\ last.instruction = "cast_encrypted_vote"
      /\ last.before.private_election.exists
      /\ last.before.private_election.status = "Active"
      /\ ~last.ended
      /\ ~last.present )
        => last.result = "Ok"

\* The set is full: a cast with a new nullifier is refused.
NullifierSetFull ==
    /\ last.instruction = "cast_encrypted_vote"
    /\ ~last.present
    /\ ~last.ended
    /\ last.before.nullifier_set.exists
    /\ len(last.before.nullifier_set) = NullifierCapacity
    /\ last.result = "AccountDidNotSerialize"
    /\ AccountsOf(last.election) = last.before

---------------------------------------------------------------------------
(* Counting.                                                               *)

\* C16: for each election total_encrypted_votes equals the number of
\* nullifiers in its NullifierSet and the number of its stored
\* EncryptedVote accounts; all three are zero after initialization, each
\* successful cast increases all three by exactly one, and a cast that
\* fails changes none of them.
C16_CountingInvariant ==
    /\ \A e \in ElectionKeys :
        private_elections[e].exists
            => /\ nullifier_sets[e].exists
               /\ private_elections[e].total_encrypted_votes = len(nullifier_sets[e])
               /\ private_elections[e].total_encrypted_votes = Cardinality(VotesOf(e))
    /\ (last.instruction = "initialize_private_election" /\ last.result = "Ok")
        => /\ private_elections[last.election].total_encrypted_votes = 0
           /\ nullifier_sets[last.election].nullifiers = <<>>
           /\ VotesOf(last.election) = {}
    /\ (last.instruction = "cast_encrypted_vote" /\ last.result = "Ok")
        => /\ private_elections[last.election].total_encrypted_votes
                = last.before.private_election.total_encrypted_votes + 1
           /\ len(nullifier_sets[last.election])
                = len(last.before.nullifier_set) + 1
           /\ Cardinality(VotesOf(last.election))
                = Cardinality(last.before.encrypted_votes) + 1
    /\ (last.instruction = "cast_encrypted_vote" /\ last.result # "Ok")
        => AccountsOf(last.election) = last.before

\* The second successful cast of an election.
C16_Witness ==
    /\ last.instruction = "cast_encrypted_vote"
    /\ last.result = "Ok"
    /\ private_elections[last.election].total_encrypted_votes = 2
    /\ len(nullifier_sets[last.election]) = 2
    /\ Cardinality(VotesOf(last.election)) = 2

\* A failed cast on an election that holds a vote.
C16_WitnessFailed ==
    /\ last.instruction = "cast_encrypted_vote"
    /\ last.result = "ElectionEnded"
    /\ private_elections[last.election].total_encrypted_votes = 1
    /\ Cardinality(VotesOf(last.election)) = 1

=============================================================================
